---- MODULE Spec2Model ----
(***************************************************************************)
(* tabJoint: reconciliation of tabular datasets keyed by a patient column. *)
(* Three parts of jointabs.py / read.py are modelled:                      *)
(*   - normalize_str_series      (SpecNorm)                                *)
(*   - load_files + merge_patient_dataframes / merge_patient_files         *)
(*                               (SpecMerge)                               *)
(*   - sanity_check_dataframes and parse_conflicts  (SpecDetect)           *)
(* A pandas cell is a tagged record: missing (NaN), numeric or text; a     *)
(* text is a sequence of one-character strings.                            *)
(***************************************************************************)
EXTENDS Integers, Sequences, FiniteSets

VARIABLES nstr, nprev, napplied,
          dfs, merged, mres,
          df1, df2, entry, dpc, dres, todo, comparisons, report

nvars == <<nstr, nprev, napplied>>
mvars == <<dfs, merged, mres>>
dvars == <<df1, df2, entry, dpc, dres, todo, comparisons, report>>
vars == <<nvars, mvars, dvars>>

(***************************************************************************)
(* Cells                                                                   *)
(***************************************************************************)
Missing == [t |-> "na"]
Num(n) == [t |-> "num", n |-> n]
Str(s) == [t |-> "str", s |-> s]

isna(c) == c.t = "na"

\* no frame
NoTable == [cols |-> {}, rows |-> <<>>]

(***************************************************************************)
(* Bounds                                                                  *)
(***************************************************************************)
MaxLen == 3
MaxTables == 2
MaxRows == 3
MaxPairRows == 2

(***************************************************************************)
(* normalize_str_series                                                    *)
(***************************************************************************)
Alphabet == {"a", "A", "ß", "ä", "Ä", "ö", "Ö", "ü", "Ü", "-", " ", "\t"}

\* str.casefold on one character: lower case, and sharp s becomes "ss"
casefold_char(c) ==
    CASE c = "A" -> <<"a">>
      [] c = "N" -> <<"n">>
      [] c = "Y" -> <<"y">>
      [] c = "R" -> <<"r">>
      [] c = "Ä" -> <<"ä">>
      [] c = "Ö" -> <<"ö">>
      [] c = "Ü" -> <<"ü">>
      [] c = "ß" -> <<"s", "s">>
      [] OTHER -> <<c>>

RECURSIVE casefold(_)
casefold(s) ==
    IF s = <<>> THEN <<>> ELSE casefold_char(Head(s)) \o casefold(Tail(s))

\* str.replace(old, new, regex=False) for a one-character old
RECURSIVE replace(_, _, _)
replace(s, old, new) ==
    IF s = <<>> THEN <<>>
    ELSE (IF Head(s) = old THEN new ELSE <<Head(s)>>) \o replace(Tail(s), old, new)

isspace(c) == c \in {" ", "\t"}

\* str.replace(r"\s+", " ", regex=True)
RECURSIVE collapse(_)
collapse(s) ==
    IF s = <<>> THEN <<>>
    ELSE IF isspace(Head(s))
         THEN IF Tail(s) # <<>> /\ isspace(Head(Tail(s)))
              THEN collapse(Tail(s))
              ELSE <<" ">> \o collapse(Tail(s))
         ELSE <<Head(s)>> \o collapse(Tail(s))

RECURSIVE lstrip(_)
lstrip(s) == IF s # <<>> /\ isspace(Head(s)) THEN lstrip(Tail(s)) ELSE s

RECURSIVE rstrip(_)
rstrip(s) ==
    IF s # <<>> /\ isspace(s[Len(s)]) THEN rstrip(SubSeq(s, 1, Len(s) - 1)) ELSE s

\* str.strip
strip(s) == rstrip(lstrip(s))

\* a plausible slip: the umlauts are expanded before the case fold
normalize_umlaut_first(s) ==
    LET a == replace(s, "-", <<" ">>)
        b == replace(a, "ä", <<"a", "e">>)
        c == replace(b, "ö", <<"o", "e">>)
        d == replace(c, "ü", <<"u", "e">>)
        e == casefold(d)
    IN strip(collapse(e))

normalize_str_series(s) ==
    LET a == casefold(s)
        b == replace(a, "-", <<" ">>)
        c == replace(b, "ä", <<"a", "e">>)
        d == replace(c, "ö", <<"o", "e">>)
        e == replace(d, "ü", <<"u", "e">>)
        f == replace(e, "-", <<" ">>)
        g == collapse(f)
    IN strip(g)

Strings(n) == UNION {[1..k -> Alphabet] : k \in 0..n}

InitNorm ==
    /\ nstr \in Strings(MaxLen)
    /\ nprev = <<>>
    /\ napplied = 0
    /\ dfs = <<>> /\ merged = NoTable /\ mres = "idle"
    /\ df1 = NoTable /\ df2 = NoTable /\ entry = "idle" /\ dpc = "idle"
    /\ dres = "none" /\ todo = <<>> /\ comparisons = <<>> /\ report = <<>>

\* one application of normalize_str_series to the current value
Normalize ==
    /\ napplied \in {0, 1}
    /\ nprev' = nstr
    /\ nstr' = normalize_str_series(nstr)
    /\ napplied' = napplied + 1
    /\ UNCHANGED <<mvars, dvars>>

NextNorm == Normalize

(***************************************************************************)
(* load_files, merge_patient_dataframes (jointabs.py) and                  *)
(* merge_patient_files (read.py, the same two statements)                  *)
(***************************************************************************)
patient_col == "Patient"

KeyCells == {Missing, Num(1), Num(2)}
ValCells == {Missing, Num(5), Num(7)}
CellsOf(c) == IF c = patient_col THEN KeyCells ELSE ValCells

\* the column sets a loaded file may have
ColSets == {{patient_col, "x"}, {patient_col}, {"x"}}

RowsOf(cs) == {r \in [cs -> KeyCells \cup ValCells] : \A c \in cs : r[c] \in CellsOf(c)}

\* the tables of at most n rows
Tables(n) ==
    UNION {{[cols |-> cs, rows |-> r] : r \in [1..k -> RowsOf(cs)]} :
           cs \in ColSets, k \in 0..n}

RECURSIVE TotalRows(_)
TotalRows(ts) == IF ts = <<>> THEN 0 ELSE Len(Head(ts).rows) + TotalRows(Tail(ts))

\* a row of one frame over the columns of the concatenation: NaN where absent
reindex(r, cs, allcols) == [c \in allcols |-> IF c \in cs THEN r[c] ELSE Missing]

RECURSIVE concat_rows(_, _)
concat_rows(ts, allcols) ==
    IF ts = <<>> THEN <<>>
    ELSE [i \in 1..Len(Head(ts).rows) |-> reindex(Head(ts).rows[i], Head(ts).cols, allcols)]
         \o concat_rows(Tail(ts), allcols)

\* pd.concat(dfs, axis=0, ignore_index=True)
concat(ts) ==
    LET allcols == UNION {ts[i].cols : i \in 1..Len(ts)}
    IN [cols |-> allcols, rows |-> concat_rows(ts, allcols)]

Min(S) == CHOOSE m \in S : \A o \in S : m <= o

RECURSIVE sort_keys(_)
sort_keys(S) ==
    IF S = {} THEN <<>>
    ELSE LET m == Min(S) IN <<m>> \o sort_keys(S \ {m})

RECURSIVE first_seen_keys(_, _)
first_seen_keys(rows, seen) ==
    IF rows = <<>> THEN <<>>
    ELSE LET kc == Head(rows)[patient_col]
         IN IF isna(kc) \/ kc.n \in seen
            THEN first_seen_keys(Tail(rows), seen)
            ELSE <<kc.n>> \o first_seen_keys(Tail(rows), seen \cup {kc.n})

\* a plausible slip: groupby(..., sort=False), the groups in first-seen order
group_keys_unsorted(rows) == first_seen_keys(rows, {})

\* groupby(patient_col): sort=True, dropna=True by default, so the groups are
\* the non-missing key values in ascending order
group_keys(rows) ==
    sort_keys({rows[i][patient_col].n : i \in {j \in 1..Len(rows) : ~isna(rows[j][patient_col])}})

\* a plausible slip: the first record of the group wins, missing or not
first_record(rows, k, c) ==
    LET idx == {i \in 1..Len(rows) : rows[i][patient_col] = Num(k)}
    IN rows[Min(idx)][c]

\* GroupBy.first(): per column the first non-missing value of the group
first(rows, k, c) ==
    LET idx == {i \in 1..Len(rows) : rows[i][patient_col] = Num(k) /\ ~isna(rows[i][c])}
    IN IF idx = {} THEN Missing ELSE rows[Min(idx)][c]

\* combined.groupby(patient_col, as_index=False).first()
groupby_first(combined) ==
    LET keys == group_keys(combined.rows)
    IN [cols |-> combined.cols,
        rows |-> [g \in 1..Len(keys) |->
                    [c \in combined.cols |->
                        IF c = patient_col THEN Num(keys[g])
                        ELSE first(combined.rows, keys[g], c)]]]

InitMerge ==
    /\ dfs = <<>>
    /\ merged = NoTable
    /\ mres = "none"
    /\ nstr = <<>> /\ nprev = <<>> /\ napplied = -1
    /\ df1 = NoTable /\ df2 = NoTable /\ entry = "idle" /\ dpc = "idle"
    /\ dres = "none" /\ todo = <<>> /\ comparisons = <<>> /\ report = <<>>

\* one iteration of the loop of load_files: a frame is read and appended
load_files ==
    /\ mres = "none"
    /\ Len(dfs) < MaxTables
    /\ \E t \in Tables(MaxRows - TotalRows(dfs)) : dfs' = Append(dfs, t)
    /\ UNCHANGED <<merged, mres, nvars, dvars>>

merge_patient_dataframes ==
    /\ mres = "none"
    /\ IF dfs = <<>>
       THEN \* pd.concat: "No objects to concatenate"
            /\ mres' = "ValueError"
            /\ merged' = merged
       ELSE LET combined == concat(dfs)
            IN IF patient_col \notin combined.cols
               THEN \* groupby on an absent column
                    /\ mres' = "KeyError"
                    /\ merged' = merged
               ELSE /\ mres' = "ok"
                    /\ merged' = groupby_first(combined)
    /\ UNCHANGED <<dfs, nvars, dvars>>

NextMerge == load_files \/ merge_patient_dataframes

(***************************************************************************)
(* sanity_check_dataframes and parse_conflicts                             *)
(***************************************************************************)
joint_key == "Patient"
ColOrder == <<"A", "B">>

NewYork == <<"N", "e", "w", " ", "Y", "o", "r", "k">>
new_york == <<"n", "e", "w", "-", "y", "o", "r", "k">>
Rome == <<"R", "o", "m", "e">>

DKeyCells == {Num(1), Num(2)}
NumCells == {Missing, Num(5), Num(7)}
TextCells == {Missing, Str(NewYork), Str(new_york), Str(Rome)}
BCells == {Num(5), Num(7)}

DRowsOf(cs, acells) ==
    {r \in [cs \cup {joint_key} -> DKeyCells \cup NumCells \cup TextCells] :
        /\ r[joint_key] \in DKeyCells
        /\ "A" \in cs => r["A"] \in acells
        /\ "B" \in cs => r["B"] \in BCells}

\* the frames of at most n rows; column A is numeric or text in a given frame
DTables(n) ==
    UNION {{[cols |-> cs, rows |-> r] : r \in [1..k -> DRowsOf(cs, ac)]} :
           cs \in {{"A", "B"}, {"A"}, {"B"}}, ac \in {NumCells, TextCells}, k \in 0..n}

\* the dtype pandas infers for a column of a frame
dtype(df, c) ==
    LET cells == {df.rows[i][c] : i \in 1..Len(df.rows)}
    IN IF cells = {} THEN "object"
       ELSE IF \E x \in cells : x.t = "str"
            THEN (IF \E x \in cells : x.t = "num" THEN "object" ELSE "str")
            ELSE (IF Missing \in cells THEN "float64" ELSE "int64")

is_numeric_dtype(d) == d \in {"int64", "float64"}

\* df.empty (every frame here has the key column)
empty(df) == df.rows = <<>>

\* df1.columns.intersection(df2.columns).difference(joint_keys), sorted
col_intersec(a, b) == SelectSeq(ColOrder, LAMBDA c : c \in a.cols /\ c \in b.cols)

RECURSIVE merge_from(_, _, _)
merge_from(a, b, i) ==
    IF i > Len(a.rows) THEN <<>>
    ELSE SelectSeq([j \in 1..Len(b.rows) |-> [l |-> a.rows[i], r |-> b.rows[j]]],
                   LAMBDA p : p.l[joint_key] = p.r[joint_key])
         \o merge_from(a, b, i + 1)

\* df1.merge(df2, on=joint_keys, suffixes=("_df1", "_df2"), how="inner")
merge(a, b) == merge_from(a, b, 1)

\* elementwise ==: NaN equals nothing, a number equals no text
eq(x, y) == ~isna(x) /\ ~isna(y) /\ x = y

Digits == <<"0", "1", "2", "3", "4", "5", "6", "7", "8", "9">>

\* Series.astype(str) on one cell of a series of dtype d
astype_str(x, d) ==
    IF isna(x) THEN Missing
    ELSE IF x.t = "str" THEN x
    ELSE IF d = "float64" THEN Str(<<Digits[x.n + 1], ".", "0">>)
    ELSE Str(<<Digits[x.n + 1]>>)

\* normalize_str_series on one cell of a series of dtype d
normalize_cell(x, d) ==
    LET s == astype_str(x, d)
    IN IF isna(s) THEN Missing ELSE Str(normalize_str_series(s.s))

\* a plausible slip: the missing values are not masked
equal_unmasked(x, y, d1, d2) ==
    IF is_numeric_dtype(d1) /\ is_numeric_dtype(d2) THEN eq(x, y)
    ELSE IF d1 = "str" THEN eq(normalize_cell(x, d1), normalize_cell(y, d2))
    ELSE eq(x, y)

\* the three branches of sanity_check_dataframes, on one joined row
equal(x, y, d1, d2) ==
    IF is_numeric_dtype(d1) /\ is_numeric_dtype(d2)
    THEN eq(x, y) \/ isna(x) \/ isna(y)
    ELSE IF d1 = "str"
         THEN eq(normalize_cell(x, d1), normalize_cell(y, d2)) \/ isna(x) \/ isna(y)
         ELSE eq(x, y) \/ isna(x) \/ isna(y)

\* conflict = (~s1.isna()) & (~s2.isna()) & (s1 != s2) of parse_conflicts
conflict_raw(x, y) == ~isna(x) /\ ~isna(y) /\ ~eq(x, y)

\* pd.concat(comparisons, axis=1).all().all()
all_all(cmps) ==
    \A k \in 1..Len(cmps) : \A i \in 1..Len(cmps[k]) : cmps[k][i]

Bool(b) == IF b THEN "True" ELSE "False"

any(s) == \E i \in 1..Len(s) : s[i]
where(s) == {i \in 1..Len(s) : s[i]}

\* the result of the loop of sanity_check_dataframes over cols, from the
\* comparisons cmps made so far: the raise at the first column in conflict
RECURSIVE sanity_loop(_, _, _)
sanity_loop(cols, jn, cmps) ==
    IF cols = <<>> THEN [res |-> Bool(all_all(cmps)), report |-> <<>>]
    ELSE LET col == Head(cols)
             d1 == dtype(df1, col)
             d2 == dtype(df2, col)
             equals == [i \in 1..Len(jn) |-> equal(jn[i].l[col], jn[i].r[col], d1, d2)]
             conflict == [i \in 1..Len(jn) |-> ~equals[i]]
         IN IF any(conflict)
            THEN [res |-> "ValueError",
                  report |-> <<[col |-> col, rows |-> where(conflict), ans |-> "none"]>>]
            ELSE sanity_loop(Tail(cols), jn, Append(cmps, equals))

InitDetect ==
    /\ df1 \in DTables(MaxPairRows)
    /\ df2 \in DTables(MaxPairRows - Len(df1.rows))
    /\ entry = "none"
    /\ dpc = "start"
    /\ dres = "none"
    /\ todo = <<>>
    /\ comparisons = <<>>
    /\ report = <<>>
    /\ nstr = <<>> /\ nprev = <<>> /\ napplied = -1
    /\ dfs = <<>> /\ merged = NoTable /\ mres = "idle"

sanity_check_dataframes ==
    /\ dpc = "start"
    /\ entry' = "sanity"
    /\ dpc' = "done"
    /\ IF col_intersec(df1, df2) = <<>>
       THEN dres' = "True" /\ report' = report
       ELSE IF merge(df1, df2) = <<>>
            THEN dres' = "False" /\ report' = report
            ELSE LET out == sanity_loop(col_intersec(df1, df2), merge(df1, df2), <<>>)
                 IN dres' = out.res /\ report' = out.report
    /\ UNCHANGED <<df1, df2, todo, comparisons, nvars, mvars>>

\* parse_conflicts up to the loop: the early returns, the join
parse_conflicts_start ==
    /\ dpc = "start"
    /\ entry' = "parse"
    /\ IF empty(df1) \/ empty(df2)
       THEN dres' = "False" /\ dpc' = "done" /\ todo' = todo
       ELSE IF col_intersec(df1, df2) = <<>>
            THEN dres' = "True" /\ dpc' = "done" /\ todo' = todo
            ELSE IF merge(df1, df2) = <<>>
                 THEN dres' = "False" /\ dpc' = "done" /\ todo' = todo
                 ELSE dres' = dres /\ dpc' = "loop" /\ todo' = col_intersec(df1, df2)
    /\ UNCHANGED <<df1, df2, comparisons, report, nvars, mvars>>

Answers == {"y", "Y", "n"}

\* str.lower on an answer
lower(a) == IF a = "Y" THEN "y" ELSE a

\* one iteration of the loop of parse_conflicts, with the answer typed at the
\* prompt when the column is in conflict
parse_conflicts_col ==
    /\ dpc = "loop"
    /\ todo # <<>>
    /\ LET col == Head(todo)
           jn == merge(df1, df2)
           conflict == [i \in 1..Len(jn) |-> conflict_raw(jn[i].l[col], jn[i].r[col])]
       IN IF any(conflict)
          THEN \E proceed \in Answers :
                 /\ report' = Append(report,
                        [col |-> col, rows |-> where(conflict), ans |-> proceed])
                 /\ comparisons' = Append(comparisons,
                        IF lower(proceed) = "y"
                        THEN [i \in 1..Len(jn) |-> FALSE]
                        ELSE conflict)
          ELSE /\ report' = report
               /\ comparisons' = Append(comparisons, conflict)
    /\ todo' = Tail(todo)
    /\ UNCHANGED <<df1, df2, entry, dpc, dres, nvars, mvars>>

\* the return of parse_conflicts after the loop
parse_conflicts_return ==
    /\ dpc = "loop"
    /\ todo = <<>>
    /\ dres' = Bool(all_all(comparisons))
    /\ dpc' = "done"
    /\ UNCHANGED <<df1, df2, entry, todo, comparisons, report, nvars, mvars>>

NextDetect ==
    \/ sanity_check_dataframes
    \/ parse_conflicts_start
    \/ parse_conflicts_col
    \/ parse_conflicts_return

(***************************************************************************)
(* Specifications                                                          *)
(***************************************************************************)
SpecNorm == InitNorm /\ [][NextNorm]_vars
SpecMerge == InitMerge /\ [][NextMerge]_vars
SpecDetect == InitDetect /\ [][NextDetect]_vars

(***************************************************************************)
(* Properties of normalize_str_series                                      *)
(***************************************************************************)

\* C9: normalization is idempotent: the second application of
\* normalize_str_series returns what the first returned.
NormalizeIdempotent == napplied = 2 => nstr = nprev

\* an umlaut, a blank and a sharp s went through both applications
NormalizeTwiceReached == napplied = 2 /\ nprev = <<"a", "e", " ", "s", "s">>

(***************************************************************************)
(* Properties of the consolidation                                         *)
(***************************************************************************)
\* the input rows in vertical order: <<frame, row>>, frames in source order
InputPos == UNION {{<<f, r>> : r \in 1..Len(dfs[f].rows)} : f \in 1..Len(dfs)}
Before(p, q) == p[1] < q[1] \/ (p[1] = q[1] /\ p[2] < q[2])
ValAt(p, c) == IF c \in dfs[p[1]].cols THEN dfs[p[1]].rows[p[2]][c] ELSE Missing
KeyAt(p) == ValAt(p, patient_col)
InputCols == UNION {dfs[f].cols : f \in 1..Len(dfs)}
OutRows == 1..Len(merged.rows)
OutKey(g) == merged.rows[g][patient_col]

\* C1: for every key and every other column, the output row of the key holds
\* the first non-missing value of the column among the input rows of the key,
\* in vertical order, and missing only if there is none.
CoalesceFirstNonMissing ==
    mres = "ok" =>
        \A p \in InputPos : ~isna(KeyAt(p)) =>
            \E g \in OutRows :
                /\ OutKey(g) = KeyAt(p)
                /\ \A c \in InputCols \ {patient_col} :
                     LET P == {q \in InputPos : KeyAt(q) = KeyAt(p) /\ ~isna(ValAt(q, c))}
                     IN /\ c \in merged.cols
                        /\ IF P = {} THEN isna(merged.rows[g][c])
                           ELSE \E q \in P :
                                  /\ \A o \in P : o = q \/ Before(q, o)
                                  /\ merged.rows[g][c] = ValAt(q, c)

\* rows (key=1, x=missing) then (key=1, x=5) were consolidated into x=5
CoalesceReached ==
    /\ mres = "ok"
    /\ \E p, q \in InputPos :
         /\ Before(p, q)
         /\ KeyAt(p) = Num(1) /\ KeyAt(q) = Num(1)
         /\ "x" \in dfs[p[1]].cols /\ isna(ValAt(p, "x"))
         /\ ValAt(q, "x") = Num(5)
         /\ \A o \in InputPos : (KeyAt(o) = Num(1) /\ Before(o, q)) => isna(ValAt(o, "x"))
    /\ \E g \in OutRows : OutKey(g) = Num(1) /\ merged.rows[g]["x"] = Num(5)

\* the key cells of the input rows (of the frames that have the key column)
InputKeys == {KeyAt(p) : p \in {q \in InputPos : patient_col \in dfs[q[1]].cols}}

\* C2: the key values of the output are the key values of the input rows,
\* each in exactly one output row.
KeyCompleteness ==
    mres = "ok" =>
        /\ {OutKey(g) : g \in OutRows} = InputKeys
        /\ \A g, h \in OutRows : OutKey(g) = OutKey(h) => g = h

\* C6: when some input frame lacks the key column, the merge ends in an error.
MissingKeyColumnIsError ==
    (mres # "none" /\ \E f \in 1..Len(dfs) : patient_col \notin dfs[f].cols)
        => mres \in {"KeyError", "ValueError"}

FirstPos(k) == CHOOSE p \in InputPos : KeyAt(p) = k /\ \A q \in InputPos : KeyAt(q) = k => (q = p \/ Before(p, q))

\* C10 as stated: the output rows are in the order in which their keys first
\* occur in the vertical concatenation.
FirstSeenOrder ==
    mres = "ok" =>
        \A g, h \in OutRows : g < h => Before(FirstPos(OutKey(g)), FirstPos(OutKey(h)))

\* C10 as amended: the output rows are in ascending order of their keys.
AscendingKeyOrder ==
    mres = "ok" =>
        \A g, h \in OutRows : g < h => OutKey(g).n < OutKey(h).n

\* key 2 occurs before key 1 in the input and both are in the output
UnorderedKeysReached ==
    /\ mres = "ok"
    /\ Len(merged.rows) = 2
    /\ Before(FirstPos(Num(2)), FirstPos(Num(1)))

(***************************************************************************)
(* Properties of the conflict detection                                    *)
(***************************************************************************)
Joined == merge(df1, df2)
Reported == {report[i] : i \in 1..Len(report)}
Left(i, c) == Joined[i].l[c]
Right(i, c) == Joined[i].r[c]

\* C3: a joined row whose value is missing on either side is never among the
\* rows reported as a conflict, by sanity_check_dataframes or parse_conflicts.
MissingNeverConflict ==
    \A e \in Reported : \A i \in e.rows :
        ~isna(Left(i, e.col)) /\ ~isna(Right(i, e.col))

\* a call is over, column B was reported, and column A of the same joined row
\* is missing on one side and present on the other
MissingBesideConflictReached ==
    /\ dpc = "done"
    /\ \E e \in Reported : e.col = "B" /\ 1 \in e.rows
    /\ col_intersec(df1, df2) = <<"A", "B">>
    /\ isna(Left(1, "A")) /\ Right(1, "A") = Num(7)

\* C4: two present texts with equal normalized forms are never reported as a
\* conflict, by sanity_check_dataframes or parse_conflicts.
NormalizedTextNeverConflict ==
    \A e \in Reported : \A i \in e.rows :
        (Left(i, e.col).t = "str" /\ Right(i, e.col).t = "str")
            => normalize_str_series(Left(i, e.col).s) # normalize_str_series(Right(i, e.col).s)

\* C5: sanity_check_dataframes ends by returning a verdict.
SanityCheckReturns ==
    (entry = "sanity" /\ dpc = "done") => dres \in {"True", "False"}

\* C7: after an answer other than 'y' no later column is prompted.
NonAffirmativeAborts ==
    entry = "parse" =>
        \A i \in 1..Len(report) : lower(report[i].ans) # "y" => i = Len(report)

\* C8: parse_conflicts returns True iff some reported conflict was not
\* accepted, and False otherwise.
ReturnIsHasConflicts ==
    (entry = "parse" /\ dpc = "done") =>
        dres = Bool(\E e \in Reported : lower(e.ans) # "y")

====
